---- MODULE Spec2Model ----
(***************************************************************************)
(* The recursive Bayesian estimator of src/experiments/calibration/        *)
(* estimator.py (class BayesianEstimatorVAS) as a state machine.           *)
(*                                                                         *)
(* Numbers.  The program computes in float64; the model computes in fixed  *)
(* point with the following units:                                         *)
(*   temperatures, temp_std, widths : centi-degrees   (40.0 C  = 4000)     *)
(*   probabilities, densities       : millionths      (1.0     = PROB)     *)
(*   likelihood_std                 : nano-degrees    (1.0 C   = STD_ONE)  *)
(*   reduction_factor               : thousandths     (0.9     = 900)      *)
(* scipy.stats.norm.pdf / norm.cdf are library functions; they are         *)
(* modelled by tables of their values, rounded to the nearest millionth,   *)
(* at the arguments the grid produces.  Products and quotients round       *)
(* towards zero.  For the inputs below, the temperatures this arithmetic   *)
(* produces are those of the float64 computation for every response       *)
(* sequence of up to six trials.                                           *)
(***************************************************************************)
EXTENDS Integers, Sequences, FiniteSets, TLC

VARIABLES
  est,      \* the BayesianEstimatorVAS instance (or the exception __init__ raised)
  log,      \* the records the logger received during the most recent call
  calls,    \* history: the responses passed to conduct_trial so far
  result    \* the value returned by the most recent call

vars == <<est, log, calls, result>>

(***************************************************************************)
(* Bounds of the model.                                                    *)
(***************************************************************************)
MaxTrials == 3
MaxCalls == 3
MaxGridSteps == 50

(***************************************************************************)
(* Units.                                                                  *)
(***************************************************************************)
PROB == 1000 * 1000
STD_ONE == 1000 * 1000 * 1000
RF_ONE == 10 * 100
DEG == 10 * 10
TENTH == DEG \div 10
HALF_TENTH == TENTH \div 2

\* BayesianEstimatorVAS.MAX_TEMP = 48.0
MAX_TEMP == 4800

(***************************************************************************)
(* Inputs.                                                                 *)
(***************************************************************************)
VasValues == {0, 70}
TrialBudgets == 0..MaxTrials
TrialIndices == (0 - 1)..MaxTrials
TempStarts == {38 * DEG + 3 * (DEG \div 4), 45 * DEG}
TempStds == {DEG \div 5, 3 * DEG + DEG \div 2, 4 * DEG + DEG \div 2}
LikelihoodStds == {STD_ONE, STD_ONE \div 1000}
ReductionFactors == {900, 500}
Responses == {"y", "n"}
\* the inputs of the grid construction alone: seeds 28.0, 28.1, ... and one
\* temp_std for every width (and one that has none)
GridStarts == {28 * DEG + k * TENTH : k \in 0..MaxGridSteps}
GridStds == {DEG \div 2, DEG + DEG \div 2, 2 * DEG + DEG \div 2,
             3 * DEG + DEG \div 2, 4 * DEG + DEG \div 2}

(***************************************************************************)
(* Arithmetic helpers (float operations in fixed point).                   *)
(***************************************************************************)
Abs(x) == IF x < 0 THEN -x ELSE x

\* the float nan, which 0.0 / 0.0 yields: a value outside the range of the
\* probabilities; every operation on it yields it again
NaN == 0 - 1

\* int(x) of a non-negative number of centi-degrees: truncation to whole degrees
int_of(x) == x \div DEG

\* a * b for two numbers scaled by PROB (both at most PROB), without leaving 31 bits
MulScaled(a, b) ==
  LET B == 1000
      a1 == a \div B
      a0 == a % B
      b1 == b \div B
      b0 == b % B
  IN IF a = NaN \/ b = NaN THEN NaN
     ELSE a1 * b1 + ((a1 * b0 + a0 * b1 + ((a0 * b0) \div B)) \div B)

RECURSIVE LongDiv(_, _, _, _)
LongDiv(q, r, c, n) ==
  IF n = 0 THEN q
  ELSE LongDiv(q * 10 + ((r * 10) \div c), (r * 10) % c, c, n - 1)

\* a / c as a number scaled by PROB (six decimal digits of the quotient);
\* the only division by 0 is 0 / 0, since a sum of non-negative terms is 0
\* only when every term is
DivScaled(a, c) ==
  IF a = NaN \/ c = NaN \/ c = 0 THEN NaN
  ELSE LongDiv(a \div c, a % c, c, 6)

\* x * f for a factor f scaled by RF_ONE, without leaving 31 bits
ScaleBy(x, f) == (x \div RF_ONE) * f + ((x % RF_ONE) * f) \div RF_ONE

\* an array: the function is evaluated once, element by element, into a tuple
Array(f) == f \o <<>>

RECURSIVE SumIn(_, _, _)
SumIn(s, lo, hi) ==
  IF lo > hi THEN 0
  ELSE IF lo = hi THEN s[lo]
  ELSE LET mid == (lo + hi) \div 2
       IN SumIn(s, lo, mid) + SumIn(s, mid + 1, hi)

\* np.sum
Sum(s) == IF \E i \in 1..Len(s) : s[i] = NaN THEN NaN ELSE SumIn(s, 1, Len(s))

\* x /= np.sum(x)
Normalize(s) ==
  LET z == Sum(s)
  IN Array([i \in 1..Len(s) |-> DivScaled(s[i], z)])

RECURSIVE ArgMaxIn(_, _, _)
ArgMaxIn(s, lo, hi) ==
  IF lo = hi THEN lo
  ELSE LET mid == (lo + hi) \div 2
           left == ArgMaxIn(s, lo, mid)
           right == ArgMaxIn(s, mid + 1, hi)
       IN IF s[left] = NaN THEN left
          ELSE IF s[right] = NaN THEN right
          ELSE IF s[right] > s[left] THEN right ELSE left

\* np.argmax: the index of the maximum, the first one when it occurs more than
\* once; a nan counts as the maximum
ArgMax(s) == ArgMaxIn(s, 1, Len(s))

\* np.round(x, 1): to the nearest tenth of a degree, halves to the even tenth
Round1(x) ==
  LET q == x \div TENTH
      r == x % TENTH
  IN IF r * 2 < TENTH THEN q * TENTH
     ELSE IF r * 2 > TENTH THEN (q + 1) * TENTH
     ELSE IF q % 2 = 0 THEN q * TENTH ELSE (q + 1) * TENTH

\* np.linspace(start, stop, num)
Linspace(start, stop, num) ==
  Array([i \in 1..num |-> start + ((i - 1) * (stop - start)) \div (num - 1)])

\* np.diff
Diff(s) == Array([i \in 1..(Len(s) - 1) |-> s[i + 1] - s[i]])

(***************************************************************************)
(* scipy.stats.norm.pdf(x, loc, scale) for scale = temp_std: the density   *)
(* in millionths at |x - loc| = 0.0, 0.1, 0.2, ... degrees.                *)
(***************************************************************************)
NormPdfTable(scale) ==
  CASE scale = 20 ->
    <<
       1994711, 1760327, 1209854, 647588, 269955, 87642, 22159, 4363,
       669, 80, 7
    >>
    [] scale = 300 ->
    <<
       132981, 132907, 132686, 132318, 131804, 131147, 130348, 129410,
       128336, 127129, 125794, 124335, 122757, 121064, 119261, 117355,
       115351, 113256, 111075, 108815, 106483, 104085, 101628, 99118,
       96564, 93971, 91345, 88695, 86026, 83344, 80657, 77969, 75288,
       72617, 69964, 67333, 64729, 62156, 59619, 57123, 54670
    >>
    [] scale = 350 ->
    <<
       113984, 113937, 113798, 113566, 113242, 112826, 112321, 111726,
       111045, 110277, 109425, 108491, 107477, 106386, 105220, 103982,
       102675, 101301, 99864, 98367, 96814, 95207, 93551, 91848,
       90103, 88319, 86499, 84648, 82769, 80866, 78941, 77000, 75045,
       73081, 71109, 69134, 67160, 65188, 63223, 61267, 59323
    >>
    [] scale = 450 ->
    <<
       88654, 88632, 88566, 88457, 88304, 88108, 87869, 87588, 87264,
       86898, 86492, 86044, 85557, 85031, 84466, 83863, 83223, 82548,
       81838, 81094, 80316, 79507, 78668, 77798, 76901, 75976, 75025,
       74050, 73051, 72030, 70988, 69927, 68848, 67752, 66640, 65514,
       64376, 63226, 62066, 60897, 59721, 58538, 57351, 56160, 54966,
       53771, 52577, 51383, 50192, 49004, 47821
    >>

norm_pdf(x, loc, scale) == NormPdfTable(scale)[Abs(x - loc) \div TENTH + 1]

(***************************************************************************)
(* scipy.stats.norm.cdf(x, loc, scale) for scale = likelihood_std: the     *)
(* distribution function in millionths at x - loc = 0.00, 0.05, 0.10, ...  *)
(* degrees, up to the first argument where it rounds to 1; below loc it    *)
(* is 1 - cdf of the mirrored argument.  (A grid seeded at 38.75 has its   *)
(* points at odd multiples of 0.05 and its estimates at multiples of 0.1.) *)
(***************************************************************************)
NormCdfTable(scale) ==
  CASE scale = 1000000000 ->
    <<
       500000, 519939, 539828, 559618, 579260, 598706, 617911, 636831,
       655422, 673645, 691462, 708840, 725747, 742154, 758036, 773373,
       788145, 802337, 815940, 828944, 841345, 853141, 864334, 874928,
       884930, 894350, 903200, 911492, 919243, 926471, 933193, 939429,
       945201, 950529, 955435, 959941, 964070, 967843, 971283, 974412,
       977250, 979818, 982136, 984222, 986097, 987776, 989276, 990613,
       991802, 992857, 993790, 994614, 995339, 995975, 996533, 997020,
       997445, 997814, 998134, 998411, 998650, 998856, 999032, 999184,
       999313, 999423, 999517, 999596, 999663, 999720, 999767, 999807,
       999841, 999869, 999892, 999912, 999928, 999941, 999952, 999961,
       999968, 999974, 999979, 999983, 999987, 999989, 999991, 999993,
       999995, 999996, 999997, 999997, 999998, 999998, 999999, 999999,
       999999, 999999, 1000000
    >>
    [] scale = 900000000 ->
    <<
       500000, 522152, 544236, 566184, 587930, 609409, 630559, 651321,
       671639, 691462, 710743, 729437, 747507, 764921, 781650, 797672,
       812969, 827529, 841345, 854414, 866740, 878327, 889188, 899336,
       908789, 917567, 925693, 933193, 940093, 946422, 952210, 957485,
       962280, 966623, 970547, 974079, 977250, 980087, 982619, 984870,
       986866, 988630, 990185, 991550, 992746, 993790, 994699, 995488,
       996170, 996758, 997263, 997697, 998067, 998382, 998650, 998877,
       999068, 999229, 999364, 999477, 999571, 999649, 999714, 999767,
       999811, 999848, 999877, 999901, 999921, 999937, 999950, 999960,
       999968, 999975, 999980, 999985, 999988, 999991, 999993, 999994,
       999996, 999997, 999997, 999998, 999998, 999999, 999999, 999999,
       999999, 1000000
    >>
    [] scale = 810000000 ->
    <<
       500000, 524610, 549127, 573458, 597512, 621203, 644447, 667165,
       689286, 710743, 731476, 751435, 770575, 788859, 806260, 822758,
       838339, 852999, 866740, 879570, 891504, 902563, 912772, 922160,
       930761, 938610, 945746, 952210, 958041, 963283, 967976, 972163,
       975883, 979177, 982081, 984633, 986866, 988813, 990504, 991967,
       993228, 994311, 995237, 996027, 996697, 997263, 997741, 998142,
       998477, 998756, 998987, 999178, 999336, 999465, 999571, 999657,
       999727, 999783, 999828, 999865, 999894, 999917, 999935, 999950,
       999961, 999970, 999977, 999982, 999987, 999990, 999992, 999994,
       999996, 999997, 999998, 999998, 999999, 999999, 999999, 999999,
       1000000
    >>
    [] scale = 729000000 ->
    <<
       500000, 527341, 554553, 581511, 608092, 634177, 659655, 684425,
       708393, 731476, 753603, 774713, 794759, 813705, 831528, 848215,
       863765, 878189, 891504, 903739, 914928, 925113, 934340, 942660,
       950127, 956798, 962728, 967976, 972599, 976651, 980186, 983257,
       985911, 988194, 990149, 991815, 993228, 994421, 995424, 996262,
       996960, 997539, 998016, 998407, 998727, 998987, 999198, 999367,
       999503, 999611, 999697, 999766, 999819, 999861, 999894, 999919,
       999939, 999954, 999965, 999974, 999981, 999986, 999989, 999992,
       999994, 999996, 999997, 999998, 999998, 999999, 999999, 999999,
       1000000
    >>
    [] scale = 656100000 ->
    <<
       500000, 530373, 560570, 590419, 619753, 648413, 676253, 703141,
       728958, 753603, 776994, 799065, 819772, 839085, 856994, 873505,
       888640, 902432, 914928, 926184, 936265, 945241, 953187, 960180,
       966299, 971623, 976227, 980186, 983571, 986448, 988880, 990923,
       992629, 994046, 995216, 996177, 996960, 997597, 998110, 998521,
       998849, 999110, 999315, 999475, 999601, 999697, 999772, 999829,
       999873, 999906, 999931, 999949, 999963, 999973, 999981, 999986,
       999990, 999993, 999995, 999997, 999998, 999998, 999999, 999999,
       999999, 1000000
    >>
    [] scale = 590490000 ->
    <<
       500000, 533740, 567240, 600262, 632583, 663990, 694292, 723318,
       750925, 776994, 801434, 824184, 845210, 864504, 882081, 897981,
       912260, 924993, 936265, 946174, 954821, 962313, 968759, 974265,
       978934, 982865, 986152, 988880, 991128, 992967, 994462, 995667,
       996632, 997399, 998005, 998480, 998849, 999135, 999354, 999521,
       999647, 999741, 999812, 999864, 999903, 999931, 999951, 999966,
       999976, 999983, 999989, 999992, 999995, 999996, 999998, 999998,
       999999, 999999, 1000000
    >>
    [] scale = 531441000 ->
    <<
       500000, 537479, 574627, 611125, 646666, 680972, 713794, 744919,
       774176, 801434, 826606, 849647, 870552, 889352, 906110, 920916,
       933882, 945137, 954821, 963079, 970060, 975909, 980767, 984765,
       988028, 990666, 992781, 994462, 995785, 996818, 997618, 998231,
       998697, 999048, 999310, 999504, 999647, 999750, 999825, 999878,
       999916, 999943, 999961, 999974, 999983, 999989, 999992, 999995,
       999997, 999998, 999999, 999999, 1000000
    >>
    [] scale = 500000000 ->
    <<
       500000, 539828, 579260, 617911, 655422, 691462, 725747, 758036,
       788145, 815940, 841345, 864334, 884930, 903200, 919243, 933193,
       945201, 955435, 964070, 971283, 977250, 982136, 986097, 989276,
       991802, 993790, 995339, 996533, 997445, 998134, 998650, 999032,
       999313, 999517, 999663, 999767, 999841, 999892, 999928, 999952,
       999968, 999979, 999987, 999991, 999995, 999997, 999998, 999999,
       999999, 1000000
    >>
    [] scale = 250000000 ->
    <<
       500000, 579260, 655422, 725747, 788145, 841345, 884930, 919243,
       945201, 964070, 977250, 986097, 991802, 995339, 997445, 998650,
       999313, 999663, 999841, 999928, 999968, 999987, 999995, 999998,
       999999, 1000000
    >>
    [] scale = 125000000 ->
    <<
       500000, 655422, 788145, 884930, 945201, 977250, 991802, 997445,
       999313, 999841, 999968, 999995, 999999, 1000000
    >>
    [] scale = 62500000 ->
    <<
       500000, 788145, 945201, 991802, 999313, 999968, 999999, 1000000
    >>
    [] scale = 31250000 ->
    <<
       500000, 945201, 999313, 999999, 1000000
    >>
    [] scale = 15625000 ->
    <<
       500000, 999313, 1000000
    >>
    [] scale = 1000000 ->
    <<
       500000, 1000000
    >>
    [] scale = 900000 ->
    <<
       500000, 1000000
    >>
    [] scale = 810000 ->
    <<
       500000, 1000000
    >>
    [] scale = 729000 ->
    <<
       500000, 1000000
    >>
    [] scale = 656100 ->
    <<
       500000, 1000000
    >>
    [] scale = 590490 ->
    <<
       500000, 1000000
    >>
    [] scale = 531441 ->
    <<
       500000, 1000000
    >>
    [] scale = 500000 ->
    <<
       500000, 1000000
    >>
    [] scale = 250000 ->
    <<
       500000, 1000000
    >>
    [] scale = 125000 ->
    <<
       500000, 1000000
    >>
    [] scale = 62500 ->
    <<
       500000, 1000000
    >>
    [] scale = 31250 ->
    <<
       500000, 1000000
    >>
    [] scale = 15625 ->
    <<
       500000, 1000000
    >>

norm_cdf(x, loc, scale) ==
  LET t == NormCdfTable(scale)
      i == Abs(x - loc) \div HALF_TENTH + 1
      upper == IF i <= Len(t) THEN t[i] ELSE PROB
  IN IF x >= loc THEN upper ELSE PROB - upper

(***************************************************************************)
(* BayesianEstimatorVAS.__init__                                           *)
(***************************************************************************)
Raised(exc) == [raised |-> exc]

IsInstance(e) == "temps" \in DOMAIN e

\* mutant: one more case, int(temp_std) = 4
range_width_wider(temp_std) ==
  CASE int_of(temp_std) = 0 -> 1 * DEG
    [] int_of(temp_std) = 1 -> 2 * DEG
    [] int_of(temp_std) = 2 -> 3 * DEG
    [] int_of(temp_std) = 3 -> 4 * DEG
    [] int_of(temp_std) = 4 -> 5 * DEG
    [] OTHER -> 0

\* the range of temperatures to consider, from int(temp_std); 0 when __init__ raises
range_width(temp_std) ==
  CASE int_of(temp_std) = 0 -> 1 * DEG
    [] int_of(temp_std) = 1 -> 2 * DEG
    [] int_of(temp_std) = 2 -> 3 * DEG
    [] int_of(temp_std) = 3 -> 4 * DEG
    [] OTHER -> 0

init_prior(range_temp, temp_start, temp_std) ==
  Normalize(Array([i \in 1..Len(range_temp) |->
                     norm_pdf(range_temp[i], temp_start, temp_std)]))

(***************************************************************************)
(* The spans <<min_temp, max_temp>> for which float64 evaluates            *)
(* (max_temp - min_temp) / 0.1 to just below the whole number of steps,    *)
(* e.g. (32.3 - 30.3) / 0.1 = 19.999999999999964, among the spans of the   *)
(* temp_start values of TempStarts and GridStarts.  The points of a grid   *)
(* that is one point short are no multiples of 0.01; Linspace gives them   *)
(* truncated to centi-degrees.                                             *)
(***************************************************************************)
TruncatedSpans ==
  {<<2430, 3230>>, <<2480, 3280>>, <<2630, 3230>>, <<2530, 3330>>,
   <<2680, 3280>>, <<2580, 3380>>, <<2830, 3230>>, <<2730, 3330>>,
   <<2630, 3430>>, <<2880, 3280>>, <<2780, 3380>>, <<2680, 3480>>,
   <<3030, 3230>>, <<2930, 3330>>, <<2830, 3430>>, <<2730, 3530>>,
   <<3080, 3280>>, <<2980, 3380>>, <<2880, 3480>>, <<2780, 3580>>}

\* int((self.max_temp - self.min_temp) / 0.1) + 1
num_of(min_temp, max_temp) ==
  IF <<min_temp, max_temp>> \in TruncatedSpans
  THEN (max_temp - min_temp) \div TENTH
  ELSE (max_temp - min_temp) \div TENTH + 1

\* self.range_temp as __init__ builds it, or the exception it raises
range_temp_of(temp_start, temp_std) ==
  IF range_width(temp_std) = 0 THEN Raised("ValueError")
  ELSE LET min_temp == temp_start - range_width(temp_std)
           max_temp == temp_start + range_width(temp_std)
       IN Linspace(min_temp, max_temp, num_of(min_temp, max_temp))

BayesianEstimatorVAS(vas_value, trials, temp_start, temp_std, likelihood_std, reduction_factor) ==
  IF range_width(temp_std) = 0 THEN Raised("ValueError")
  ELSE
    LET min_temp == temp_start - range_width(temp_std)
        max_temp == temp_start + range_width(temp_std)
        num == num_of(min_temp, max_temp)
        range_temp == Linspace(min_temp, max_temp, num)
    IN [vas_value |-> vas_value,
        trials |-> trials,
        temp_start |-> temp_start,
        temp_std |-> temp_std,
        likelihood_std |-> likelihood_std,
        reduction_factor |-> reduction_factor,
        min_temp |-> min_temp,
        max_temp |-> max_temp,
        range_temp |-> range_temp,
        prior |-> init_prior(range_temp, temp_start, temp_std),
        current_temp |-> temp_start,
        temps |-> <<temp_start>>,
        priors |-> <<>>,
        likelihoods |-> <<>>,
        posteriors |-> <<>>]

(***************************************************************************)
(* Properties and queries.                                                 *)
(***************************************************************************)
\* the current_temp setter: a plain write (the warning is in conduct_trial_log)
set_current_temp(self, value) == [self EXCEPT !.current_temp = value]

steps(self) == Diff(self.temps)

\* mutant: "and" where the code has "or"
validate_steps_and(self) ==
  ~((\A i \in 1..Len(Diff(self.temps)) : Diff(self.temps)[i] >= 0)
    /\ (\A i \in 1..Len(Diff(self.temps)) : Diff(self.temps)[i] <= 0))

validate_steps(self) ==
  ~((\A i \in 1..Len(steps(self)) : steps(self)[i] >= 0)
    \/ (\A i \in 1..Len(steps(self)) : steps(self)[i] <= 0))

\* mutant: self.temps[0] instead of self.temps[-1]
get_estimate_first(self) == self.temps[1]

get_estimate(self) == self.temps[Len(self.temps)]

(***************************************************************************)
(* BayesianEstimatorVAS.conduct_trial                                      *)
(***************************************************************************)
trial_type(response) == IF response = "y" THEN "over" ELSE "under"

\* mutant: both branches compute 1 - cdf
likelihood_of_same_branch(self, response) ==
  Array([i \in 1..Len(self.range_temp) |->
    PROB - norm_cdf(self.range_temp[i], self.current_temp, self.likelihood_std)])

\* mutant: the test is for "n", so that any other value counts as painful
likelihood_of_tests_n(self, response) ==
  IF response = "n"
  THEN Array([i \in 1..Len(self.range_temp) |->
          norm_cdf(self.range_temp[i], self.current_temp, self.likelihood_std)])
  ELSE Array([i \in 1..Len(self.range_temp) |->
          PROB - norm_cdf(self.range_temp[i], self.current_temp, self.likelihood_std)])

likelihood_of(self, response) ==
  IF response = "y"
  THEN Array([i \in 1..Len(self.range_temp) |->
          PROB - norm_cdf(self.range_temp[i], self.current_temp, self.likelihood_std)])
  ELSE Array([i \in 1..Len(self.range_temp) |->
          norm_cdf(self.range_temp[i], self.current_temp, self.likelihood_std)])

\* mutant: the decay statement is missing
decay_skipped(self) == self

\* self.likelihood_std *= self.reduction_factor
decay_of_factor(self) ==
  [self EXCEPT !.likelihood_std = ScaleBy(self.likelihood_std, self.reduction_factor),
               !.reduction_factor = ScaleBy(self.reduction_factor, self.reduction_factor)]

decay(self) ==
  [self EXCEPT !.likelihood_std = ScaleBy(self.likelihood_std, self.reduction_factor)]

\* posterior = likelihood * self.prior; posterior /= np.sum(posterior)
posterior_of(likelihood, prior) ==
  Normalize(Array([i \in 1..Len(prior) |-> MulScaled(likelihood[i], prior[i])]))

\* mutant: the argmax of the prior instead of the posterior
map_temp_of_prior(self, posterior) == Round1(self.range_temp[ArgMax(self.prior)])

\* np.round(self.range_temp[np.argmax(posterior)], 1)
map_temp(self, posterior) == Round1(self.range_temp[ArgMax(posterior)])

\* mutant: temps is overwritten instead of appended to
store_overwrites(self, likelihood, posterior) ==
  [self EXCEPT !.priors = Append(@, self.prior),
               !.likelihoods = Append(@, likelihood),
               !.posteriors = Append(@, posterior),
               !.temps = <<self.current_temp>>]

\* store the distributions and the temperature
store(self, likelihood, posterior) ==
  [self EXCEPT !.priors = Append(@, self.prior),
               !.likelihoods = Append(@, likelihood),
               !.posteriors = Append(@, posterior),
               !.temps = Append(@, self.current_temp)]

\* mutant: the prior is not replaced
update_prior_skipped(self, posterior) == self

\* self.prior = np.copy(posterior)
update_prior(self, posterior) == [self EXCEPT !.prior = posterior]

\* mutant: the decay is applied before the likelihood is built
conduct_trial_decay_first(self, response, trial) ==
  LET s1 == [self EXCEPT !.likelihood_std =
                ScaleBy(self.likelihood_std, self.reduction_factor)]
      likelihood == Array([i \in 1..Len(s1.range_temp) |->
                      IF response = "y"
                      THEN PROB - norm_cdf(s1.range_temp[i], s1.current_temp, s1.likelihood_std)
                      ELSE norm_cdf(s1.range_temp[i], s1.current_temp, s1.likelihood_std)])
      posterior == Normalize(Array([i \in 1..Len(s1.prior) |->
                      MulScaled(likelihood[i], s1.prior[i])]))
      s2 == [s1 EXCEPT !.current_temp = Round1(s1.range_temp[ArgMax(posterior)])]
  IN [s2 EXCEPT !.priors = Append(@, s1.prior),
                !.likelihoods = Append(@, likelihood),
                !.posteriors = Append(@, posterior),
                !.temps = Append(@, s2.current_temp),
                !.prior = posterior]

\* mutant: the last trial of the budget also resets the likelihood width
conduct_trial_final_reset(self, response, trial) ==
  LET likelihood == likelihood_of(self, response)
      s1 == decay(self)
      posterior == posterior_of(likelihood, s1.prior)
      s2 == set_current_temp(s1, map_temp(s1, posterior))
      s3 == store(s2, likelihood, posterior)
      s4 == update_prior(s3, posterior)
  IN IF trial = self.trials - 1
     THEN [s4 EXCEPT !.likelihood_std = self.likelihood_std]
     ELSE s4

conduct_trial(self, response, trial) ==
  LET likelihood == likelihood_of(self, response)
      s1 == decay(self)
      posterior == posterior_of(likelihood, s1.prior)
      s2 == set_current_temp(s1, map_temp(s1, posterior))
      s3 == store(s2, likelihood, posterior)
  IN update_prior(s3, posterior)

\* what conduct_trial hands to the logger, in order
\* mutant: the warning only when the ceiling is exceeded, not when it is reached
conduct_trial_log_above(self, response, trial) ==
  LET after == conduct_trial(self, response, trial)
  IN <<[level |-> "INFO", msg |-> "Calibration trial", trial |-> trial + 1,
        trials |-> self.trials, temp |-> self.current_temp,
        type |-> trial_type(response), vas |-> self.vas_value]>>
     \o (IF after.current_temp > MAX_TEMP
         THEN <<[level |-> "WARNING", msg |-> "Maximum temperature reached",
                 temp |-> MAX_TEMP]>>
         ELSE <<>>)
     \o (IF trial = self.trials - 1
         THEN <<[level |-> "INFO", msg |-> "Calibration estimate",
                 vas |-> self.vas_value, temp |-> get_estimate(after)],
                [level |-> "DEBUG", msg |-> "Calibration steps",
                 vas |-> self.vas_value, steps |-> steps(after)]>>
              \o (IF ~validate_steps(after)
                  THEN <<[level |-> "ERROR", msg |-> "Calibration steps same direction",
                          vas |-> self.vas_value]>>
                  ELSE <<>>)
         ELSE <<>>)

conduct_trial_log(self, response, trial) ==
  LET after == conduct_trial(self, response, trial)
  IN <<[level |-> "INFO", msg |-> "Calibration trial", trial |-> trial + 1,
        trials |-> self.trials, temp |-> self.current_temp,
        type |-> trial_type(response), vas |-> self.vas_value]>>
     \o (IF after.current_temp >= MAX_TEMP
         THEN <<[level |-> "WARNING", msg |-> "Maximum temperature reached",
                 temp |-> MAX_TEMP]>>
         ELSE <<>>)
     \o (IF trial = self.trials - 1
         THEN <<[level |-> "INFO", msg |-> "Calibration estimate",
                 vas |-> self.vas_value, temp |-> get_estimate(after)],
                [level |-> "DEBUG", msg |-> "Calibration steps",
                 vas |-> self.vas_value, steps |-> steps(after)]>>
              \o (IF ~validate_steps(after)
                  THEN <<[level |-> "ERROR", msg |-> "Calibration steps same direction",
                          vas |-> self.vas_value]>>
                  ELSE <<>>)
         ELSE <<>>)

(***************************************************************************)
(* The state machine.                                                      *)
(***************************************************************************)
NoResult == [kind |-> "none"]

Init ==
  /\ est \in {BayesianEstimatorVAS(v, n, t0, sd, ls, rf) :
                v \in VasValues, n \in TrialBudgets, t0 \in TempStarts,
                sd \in TempStds, ls \in LikelihoodStds, rf \in ReductionFactors}
  /\ log = <<>>
  /\ calls = <<>>
  /\ result = NoResult

ConductTrial ==
  /\ IsInstance(est)
  /\ Len(calls) < MaxCalls
  /\ \E response \in Responses, trial \in TrialIndices :
       /\ est' = conduct_trial(est, response, trial)
       /\ log' = conduct_trial_log(est, response, trial)
       /\ calls' = Append(calls, response)
       /\ result' = [kind |-> "None"]

\* mutant: self.temps.pop() instead of self.temps[-1]
GetEstimate_pops ==
  /\ IsInstance(est)
  /\ result' = [kind |-> "get_estimate", value |-> get_estimate(est)]
  /\ est' = [est EXCEPT !.temps = IF Len(@) > 1 THEN SubSeq(@, 1, Len(@) - 1) ELSE @]
  /\ log' = <<>>
  /\ UNCHANGED calls

GetEstimate ==
  /\ IsInstance(est)
  /\ result' = [kind |-> "get_estimate", value |-> get_estimate(est)]
  /\ log' = <<>>
  /\ UNCHANGED <<est, calls>>

ValidateSteps ==
  /\ IsInstance(est)
  /\ result' = [kind |-> "validate_steps", value |-> validate_steps(est)]
  /\ log' = <<>>
  /\ UNCHANGED <<est, calls>>

Next == ConductTrial \/ GetEstimate \/ ValidateSteps

Spec == Init /\ [][Next]_vars

(***************************************************************************)
(* The construction of the grid alone (lines 117-134 of __init__), for a   *)
(* range of seeds: result holds the arguments, then the grid.              *)
(***************************************************************************)
NotConstructed == [state |-> "not constructed"]

InitGrid ==
  /\ est = NotConstructed
  /\ log = <<>>
  /\ calls = <<>>
  /\ result \in {[kind |-> "args", temp_start |-> t0, temp_std |-> sd] :
                   t0 \in GridStarts, sd \in GridStds}

MakeGrid ==
  /\ result.kind = "args"
  /\ result' = [kind |-> "range_temp",
                temp_start |-> result.temp_start,
                temp_std |-> result.temp_std,
                value |-> range_temp_of(result.temp_start, result.temp_std)]
  /\ UNCHANGED <<est, log, calls>>

NextGrid == MakeGrid

SpecGrid == InitGrid /\ [][NextGrid]_vars

(***************************************************************************)
(* The estimator driven with arbitrary response values: conduct_trial      *)
(* compares the response with "y" and takes the else branch for anything   *)
(* else.  The caller counts the trials, as the calibration loop does.      *)
(***************************************************************************)
OtherResponses == {"Y", "painful", ""}

AnyResponses == Responses \cup OtherResponses

InitAny ==
  /\ est \in {BayesianEstimatorVAS(v, MaxTrials, t0, sd, STD_ONE, 9 * (RF_ONE \div 10)) :
                v \in VasValues, t0 \in TempStarts, sd \in TempStds}
  /\ log = <<>>
  /\ calls = <<>>
  /\ result = NoResult

ConductTrialAny ==
  /\ IsInstance(est)
  /\ Len(calls) < MaxCalls
  /\ \E response \in AnyResponses :
       /\ est' = conduct_trial(est, response, Len(calls))
       /\ log' = conduct_trial_log(est, response, Len(calls))
       /\ calls' = Append(calls, response)
       /\ result' = [kind |-> "None"]

NextAny == ConductTrialAny \/ GetEstimate \/ ValidateSteps

SpecAny == InitAny /\ [][NextAny]_vars

(***************************************************************************)
(* The estimator constructed with temp_start 40.0 and temp_std 3.0 and the *)
(* default likelihood_std and reduction_factor, for a budget of 3 trials.  *)
(***************************************************************************)
ScenarioVasValues == {50} \cup VasValues

InitScenario ==
  /\ est \in {BayesianEstimatorVAS(v, 3, 40 * DEG, 3 * DEG, STD_ONE, 9 * (RF_ONE \div 10)) :
                v \in ScenarioVasValues}
  /\ log = <<>>
  /\ calls = <<>>
  /\ result = NoResult

SpecScenario == InitScenario /\ [][Next]_vars

(***************************************************************************)
(* Two estimators alive at once, as estimator_vas70 and estimator_vas0 in  *)
(* main: est is the pair of the two objects, each not yet constructed, an  *)
(* instance, or the exception its construction raised.  Every attribute is *)
(* assigned to self in __init__, so a call reads and writes the attributes *)
(* of its own object only; calls counts the conduct_trial calls of both.   *)
(***************************************************************************)
Estimators == 1..2

\* vas_value=70 for the first estimator, vas_value=0 for the second
vas_value_of(i) == <<70, 0>>[i]

InitPair ==
  /\ est = [i \in Estimators |-> NotConstructed]
  /\ log = <<>>
  /\ calls = <<>>
  /\ result = NoResult

\* mutant: temps is one list shared by all instances (a class attribute)
update_instance_shared(objs, i, response, trial) ==
  LET after == conduct_trial(objs[i], response, trial)
  IN [j \in Estimators |->
        IF j = i THEN after
        ELSE IF IsInstance(objs[j])
             THEN [objs[j] EXCEPT !.temps = Append(@, after.current_temp)]
             ELSE objs[j]]

\* objs[i].conduct_trial(response, trial): the attributes of objs[i] change
update_instance(objs, i, response, trial) ==
  [objs EXCEPT ![i] = conduct_trial(objs[i], response, trial)]

ConstructOne ==
  \E i \in Estimators, t0 \in TempStarts, sd \in TempStds :
    /\ est[i] = NotConstructed
    /\ est' = [est EXCEPT ![i] =
                 BayesianEstimatorVAS(vas_value_of(i), MaxTrials, t0, sd,
                                      STD_ONE, 9 * (RF_ONE \div 10))]
    /\ log' = <<>>
    /\ result' = [kind |-> "__init__", target |-> i]
    /\ UNCHANGED calls

ConductTrialOne ==
  \E i \in Estimators, response \in Responses :
    /\ IsInstance(est[i])
    /\ Len(calls) < MaxCalls
    /\ est' = update_instance(est, i, response, Len(est[i].temps) - 1)
    /\ log' = conduct_trial_log(est[i], response, Len(est[i].temps) - 1)
    /\ calls' = Append(calls, response)
    /\ result' = [kind |-> "conduct_trial", target |-> i]

NextPair == ConstructOne \/ ConductTrialOne

SpecPair == InitPair /\ [][NextPair]_vars

(***************************************************************************)
(* run_estimation_trials(estimator) of the calibration script.  est is the *)
(* estimator, calls the responses passed to it, log the calls the function *)
(* makes on the screen, the thermode, the estimator and the warning        *)
(* signal, in order, and result the position of the function: just called, *)
(* blocked in one of the five waits of iteration "trial", or ended by a    *)
(* return or by an exception.  One action runs the code from one wait to   *)
(* the next.  The wait for a key ends with one of the two keys it was      *)
(* asked for or with none of them.                                         *)
(***************************************************************************)
\* the keys the wait of line 162 is asked for
Keys == {"K_y", "K_n"}

\* what the wait of line 162 can bind to found: one of the keys, or a value
\* that is neither of them (None when the wait ended without a key)
Found == Keys \cup {"None"}

\* the response the if/elif of lines 163-168 passes for the key found
response_of(found) == IF found = "K_y" THEN "y" ELSE "n"

\* estimator.check_steps(): BayesianEstimatorVAS has no attribute check_steps
check_steps(self) == Raised("AttributeError")

\* stimulus.present()
present(stimulus) == [ev |-> "present", stimulus |-> stimulus]

\* trial is the loop variable, -1 while the loop has not bound it
InitRun ==
  /\ est \in {BayesianEstimatorVAS(v, n, t0, sd, STD_ONE, 9 * (RF_ONE \div 10)) :
                v \in VasValues, n \in TrialBudgets, t0 \in TempStarts,
                sd \in {x \in TempStds : range_width(x) # 0}}
  /\ log = <<>>
  /\ calls = <<>>
  /\ result = [kind |-> "run_estimation_trials", pc |-> "called", trial |-> 0 - 1]

\* the loop header yields the next trial; up to the wait of line 152
RunEnter ==
  /\ result.pc \in {"called", "answer_wait"}
  /\ result.trial + 1 < est.trials
  /\ log' = Append(log, present("cross_idle"))
  /\ result' = [result EXCEPT !.pc = "iti_wait", !.trial = @ + 1]
  /\ UNCHANGED <<est, calls>>

\* lines 153-156: trigger, present the estimate, up to the stimulus wait
RunStimulus ==
  /\ result.pc = "iti_wait"
  /\ log' = log \o <<[ev |-> "trigger"],
                      [ev |-> "set_temp", temp |-> get_estimate(est)],
                      present("cross_pain")>>
  /\ result' = [result EXCEPT !.pc = "stimulus_wait"]
  /\ UNCHANGED <<est, calls>>

\* lines 157-159: back to the baseline, up to the ramp-down wait
RunRampDown ==
  /\ result.pc = "stimulus_wait"
  /\ log' = log \o <<[ev |-> "set_temp_baseline"], present("cross_idle")>>
  /\ result' = [result EXCEPT !.pc = "ramp_down_wait"]
  /\ UNCHANGED <<est, calls>>

\* lines 161-162: the question, up to the wait for a key
RunQuestion ==
  /\ result.pc = "ramp_down_wait"
  /\ log' = Append(log, present(IF est.vas_value = 70 THEN "question_vas70"
                                                       ELSE "question_vas0"))
  /\ result' = [result EXCEPT !.pc = "keyboard_wait"]
  /\ UNCHANGED <<est, calls>>

\* lines 162-169: the value found, up to the last wait of the iteration; for
\* K_y or K_n conduct_trial and the answer, for any other value neither branch
\* of the if/elif is taken and the estimator is not called
RunAnswer ==
  /\ result.pc = "keyboard_wait"
  /\ \E found \in Found :
       IF found \in Keys
       THEN /\ est' = conduct_trial(est, response_of(found), result.trial)
            /\ log' = log \o <<[ev |-> "conduct_trial",
                                 response |-> response_of(found),
                                 trial |-> result.trial],
                                present(IF found = "K_y" THEN "answer_yes"
                                                         ELSE "answer_no")>>
            /\ calls' = Append(calls, response_of(found))
       ELSE UNCHANGED <<est, log, calls>>
  /\ result' = [result EXCEPT !.pc = "answer_wait"]

\* the loop is exhausted: "if estimator.check_steps(): warn_signal()" and the return
RunFinish ==
  /\ result.pc \in {"called", "answer_wait"}
  /\ result.trial + 1 >= est.trials
  /\ LET checked == check_steps(est)
     IN IF "raised" \in DOMAIN checked
        THEN /\ result' = [kind |-> "run_estimation_trials", pc |-> "raised",
                           trial |-> result.trial, exc |-> checked.raised]
             /\ log' = log
        ELSE /\ result' = [kind |-> "run_estimation_trials", pc |-> "returned",
                           trial |-> result.trial, value |-> get_estimate(est)]
             /\ log' = IF checked.value THEN Append(log, [ev |-> "warn_signal"])
                                        ELSE log
  /\ UNCHANGED <<est, calls>>

NextRun ==
  RunEnter \/ RunStimulus \/ RunRampDown \/ RunQuestion \/ RunAnswer \/ RunFinish

SpecRun == InitRun /\ [][NextRun]_vars

(***************************************************************************)
(* Thermoino.set_temp.  est is the Thermoino object (mms_baseline, temp,   *)
(* mms_rate_of_rise; temperatures in hundredths of a degree, the rate in   *)
(* degrees per second), result the last call with the line the device      *)
(* answered and what the call returned or raised, log its logger records.  *)
(* A line of the device is an integer code, other text (as the answer to   *)
(* DIAG), or bytes that are not ASCII.                                     *)
(***************************************************************************)
OkCodes == <<"OK_NULL", "OK", "OK_READY", "OK_MOVE_SLOW", "OK_MOVE_PREC">>

ErrorCodes ==
  <<"ERR_NO_PARAM", "ERR_CMD_NOT_FOUND", "ERR_CTC_BIN_WIDTH", "ERR_CTC_PULSE_WIDTH",
    "ERR_CTC_NOT_INIT", "ERR_CTC_FULL", "ERR_CTC_EMPTY", "ERR_SHOCK_RANGE",
    "ERR_SHOCK_ISI", "ERR_BUSY", "ERR_DEBUG_RANGE">>

\* the names in OkCodes.__members__ and in ErrorCodes.__members__
OkMembers == {OkCodes[k] : k \in 1..Len(OkCodes)}

ErrorMembers == {ErrorCodes[k] : k \in 1..Len(ErrorCodes)} \cup {"ERR_NULL"}

MmsBaselines == {32 * DEG}

MmsRates == {5, 10, 13}

TempTargets == {32 * DEG, 38 * DEG + 3 * (DEG \div 4), 40 * DEG, 45 * DEG}

\* the lines the device can answer
Replies ==
  {[kind |-> "int", code |-> n, text |-> ""] :
     n \in (0 - Len(ErrorCodes) - 1)..Len(OkCodes)}
  \cup {[kind |-> "text", code |-> 0, text |-> t] : t \in {"", "DIAG"}}
  \cup {[kind |-> "undecodable", code |-> 0, text |-> ""]}

Thermoino(mms_baseline, mms_rate_of_rise) ==
  [mms_baseline |-> mms_baseline,
   temp |-> mms_baseline,
   mms_rate_of_rise |-> mms_rate_of_rise]

\* _handle_response on the decoded line: the name of the code, the text
\* itself when it is no integer, or the exception raised
_handle_response(reply) ==
  IF reply.kind = "undecodable" THEN Raised("TypeError")
  ELSE IF reply.kind = "text" THEN [output |-> reply.text]
  ELSE IF reply.code < 0
       THEN IF 0 - reply.code <= Len(ErrorCodes)
            THEN [output |-> ErrorCodes[0 - reply.code]]
            ELSE Raised("ValueError")
       ELSE IF reply.code + 1 <= Len(OkCodes)
            THEN [output |-> OkCodes[reply.code + 1]]
            ELSE Raised("ValueError")

\* _send_command: write the command, read and decode one line
_send_command(command, reply) == _handle_response(reply)

\* round(((temp_target - self.temp) / self.mms_rate_of_rise) * 1e6)
move_time_us_of(self, temp_target) ==
  LET n == (temp_target - self.temp) * ((1000 * 1000) \div DEG)
      d == self.mms_rate_of_rise
      r == (2 * Abs(n) + d) \div (2 * d)
  IN IF n >= 0 THEN r ELSE 0 - r

\* math.ceil(abs(move_time_us / 1e3))
duration_ms_of(move_time_us) == (Abs(move_time_us) + 999) \div 1000

\* Thermoino.set_temp: the object after the call, what the call returned or
\* raised, and its logger records
set_temp(self, temp_target, reply) ==
  LET move_time_us == move_time_us_of(self, temp_target)
      sent == _send_command(<<"MOVE", move_time_us>>, reply)
      duration_ms == duration_ms_of(move_time_us)
  IN IF "raised" \in DOMAIN sent
     THEN [self |-> self, raised |-> sent.raised,
           log |-> IF reply.kind = "undecodable"
                   THEN <<[level |-> "ERROR",
                           msg |-> "Thermoino response could not be decoded"]>>
                   ELSE <<>>]
     ELSE IF sent.output \in OkMembers
     THEN [self |-> [self EXCEPT !.temp = temp_target],
           returned |-> <<duration_ms, TRUE>>,
           log |-> <<[level |-> "INFO", msg |-> "Change temperature",
                      temp |-> temp_target, ms |-> duration_ms,
                      output |-> sent.output]>>]
     ELSE IF sent.output \in ErrorMembers
     THEN [self |-> self,
           returned |-> <<duration_ms, FALSE>>,
           log |-> <<[level |-> "ERROR", msg |-> "Setting temperature failed",
                      temp |-> temp_target, output |-> sent.output]>>]
     ELSE [self |-> self, raised |-> "UnboundLocalError", log |-> <<>>]

InitThermoino ==
  /\ est \in {Thermoino(b, r) : b \in MmsBaselines, r \in MmsRates}
  /\ log = <<>>
  /\ calls = <<>>
  /\ result = NoResult

SetTemp ==
  \E temp_target \in TempTargets, reply \in Replies :
    LET call == set_temp(est, temp_target, reply)
    IN /\ est' = call.self
       /\ log' = call.log
       /\ result' = IF "raised" \in DOMAIN call
                     THEN [kind |-> "set_temp", temp_target |-> temp_target,
                           reply |-> reply, raised |-> call.raised]
                     ELSE [kind |-> "set_temp", temp_target |-> temp_target,
                           reply |-> reply, returned |-> call.returned]
       /\ UNCHANGED calls

NextThermoino == SetTemp

SpecThermoino == InitThermoino /\ [][NextThermoino]_vars

(***************************************************************************)
(* Helpers of the properties.                                              *)
(***************************************************************************)
RECURSIVE Pow(_, _)
Pow(b, n) == IF n = 0 THEN 1 ELSE b * Pow(b, n - 1)

Last(s) == s[Len(s)]

IsPrefix(s, t) == Len(s) <= Len(t) /\ \A i \in 1..Len(s) : s[i] = t[i]

\* t is s with exactly one entry appended
GrowsByOne(s, t) == Len(t) = Len(s) + 1 /\ IsPrefix(s, t)

NonDecreasing(s) == \A i \in 1..(Len(s) - 1) : s[i] <= s[i + 1]

NonIncreasing(s) == \A i \in 1..(Len(s) - 1) : s[i] >= s[i + 1]

\* likelihood_std_initial * reduction_factor^k in micro-degrees; both reduction
\* factors are whole tenths, and the product is exact while 10^k divides the start
DecayedStd(initial, reduction_factor, k) ==
  (initial \div Pow(10, k)) * Pow(reduction_factor \div 100, k)

\* the number of conduct_trial calls completed so far
Completed == Len(calls)

\* the lengths of temps and of the diagnostic sequences after Completed calls
C1_Lengths ==
  IsInstance(est) =>
    /\ Len(est.temps) = Completed + 1
    /\ Len(est.priors) = Completed
    /\ Len(est.likelihoods) = Completed
    /\ Len(est.posteriors) = Completed

\* a step that is a conduct_trial call appends one entry to each sequence;
\* any other step leaves the estimator alone
C1_Appends ==
  IF calls' # calls
  THEN /\ GrowsByOne(est.temps, est'.temps)
       /\ GrowsByOne(est.priors, est'.priors)
       /\ GrowsByOne(est.likelihoods, est'.likelihoods)
       /\ GrowsByOne(est.posteriors, est'.posteriors)
  ELSE est' = est

(***************************************************************************)
(* C1: every conduct_trial call appends exactly one entry to temps and     *)
(* exactly one entry to each of priors, likelihoods and posteriors, and    *)
(* leaves all earlier entries unchanged; after k completed calls           *)
(* len(temps) = k + 1 and each diagnostic sequence has length k.           *)
(***************************************************************************)
C1_HistoryGrowth == [] C1_Lengths /\ [][C1_Appends]_vars

C1_Witness ==
  /\ IsInstance(est)
  /\ Completed >= 3
  /\ Len(est.temps) = Completed + 1
  /\ Len(est.posteriors) = Completed

(***************************************************************************)
(* C2: in every reachable state get_estimate() returns the last entry of   *)
(* temps, and that value equals current_temp.                              *)
(***************************************************************************)
C2_EstimateIsCurrent ==
  IsInstance(est) =>
    /\ get_estimate(est) = Last(est.temps)
    /\ get_estimate(est) = est.current_temp
    /\ result.kind = "get_estimate" => result.value = est.current_temp

C2_Witness ==
  /\ IsInstance(est)
  /\ Completed >= 2
  /\ result.kind = "get_estimate"
  /\ result.value # est.temp_start
  /\ result.value = est.current_temp

(***************************************************************************)
(* C3: the update is recursive: the estimator's prior is the posterior of  *)
(* the latest call, the prior recorded for each later call is the          *)
(* posterior recorded for the call before it, and the prior recorded for   *)
(* the first call is the construction-time Gaussian prior.                 *)
(***************************************************************************)
C3_RecursiveUpdate ==
  IsInstance(est) =>
    LET prior0 == init_prior(est.range_temp, est.temp_start, est.temp_std)
    IN /\ \A k \in 1..Len(est.priors) :
            est.priors[k] = IF k = 1 THEN prior0 ELSE est.posteriors[k - 1]
       /\ est.prior = IF Len(est.posteriors) = 0 THEN prior0 ELSE Last(est.posteriors)

C3_Witness ==
  /\ IsInstance(est)
  /\ Completed >= 2
  /\ est.priors[2] = est.posteriors[1]
  /\ est.priors[2] # est.priors[1]
  /\ est.prior = est.posteriors[Completed]

(***************************************************************************)
(* C4: after every conduct_trial call current_temp is the grid point at    *)
(* which the posterior of that call is maximal (no grid point has more     *)
(* posterior mass, and every lower grid point has strictly less), rounded  *)
(* to one decimal place.                                                   *)
(***************************************************************************)
C4_MapEstimate ==
  (IsInstance(est) /\ Completed >= 1) =>
    LET posterior == Last(est.posteriors)
    IN /\ est.current_temp % TENTH = 0
       /\ \E i \in 1..Len(est.range_temp) :
            /\ est.current_temp = Round1(est.range_temp[i])
            /\ \A j \in 1..Len(posterior) : posterior[j] <= posterior[i]
            /\ \A j \in 1..(i - 1) : posterior[j] < posterior[i]

C4_Witness ==
  /\ IsInstance(est)
  /\ Completed >= 2
  /\ est.current_temp # est.temps[Completed]
  /\ \E i \in 1..Len(est.range_temp) :
       /\ est.range_temp[i] = est.current_temp
       /\ \A j \in 1..Len(est.range_temp) :
            j # i => Last(est.posteriors)[j] < Last(est.posteriors)[i]

(***************************************************************************)
(* C5 (as stated): the likelihood built for a "painful" response ("y") is  *)
(* non-decreasing over the grid, the one built for a "not painful"         *)
(* response is non-increasing.                                             *)
(***************************************************************************)
C5_AsStated ==
  IsInstance(est) =>
    \A k \in 1..Len(est.likelihoods) :
      IF calls[k] = "y" THEN NonDecreasing(est.likelihoods[k])
      ELSE NonIncreasing(est.likelihoods[k])

(***************************************************************************)
(* C5 (amended): the likelihood is monotone over the grid the other way    *)
(* round: for a "painful" response ("y") it is non-increasing in t, for a  *)
(* "not painful" response it is non-decreasing in t.                       *)
(***************************************************************************)
C5_MonotoneLikelihood ==
  IsInstance(est) =>
    \A k \in 1..Len(est.likelihoods) :
      IF calls[k] = "y" THEN NonIncreasing(est.likelihoods[k])
      ELSE NonDecreasing(est.likelihoods[k])

C5_Witness ==
  /\ IsInstance(est)
  /\ Completed >= 2
  /\ calls[1] = "y"
  /\ calls[2] = "n"
  /\ est.likelihoods[1][1] > est.likelihoods[1][Len(est.range_temp)]
  /\ est.likelihoods[2][1] < est.likelihoods[2][Len(est.range_temp)]

\* every "y" call appended an entry >= the one before it, every other call
\* an entry <= the one before it
PainfulRaises ==
  \A k \in 1..Completed :
    IF calls[k] = "y" THEN est.temps[k + 1] >= est.temps[k]
    ELSE est.temps[k + 1] <= est.temps[k]

\* every "y" call appended an entry <= the one before it, every other call
\* an entry >= the one before it
PainfulLowers ==
  \A k \in 1..Completed :
    IF calls[k] = "y" THEN est.temps[k + 1] <= est.temps[k]
    ELSE est.temps[k + 1] >= est.temps[k]

(***************************************************************************)
(* C6: each response moves the estimate to one side only.  A "painful"     *)
(* response never lowers the estimate and a "not painful" response never   *)
(* raises it: every entry of temps that a "y" call appended is >= the      *)
(* entry before it and every entry another call appended is <= the entry   *)
(* before it, so a run of "painful" responses gives a monotone history.    *)
(* The sides are those of the statement or, the likelihood of "y" being    *)
(* 1 - cdf (C5), the opposite ones; the program keeps to neither           *)
(* assignment: the seed entry of temps is not rounded (C8) and a           *)
(* posterior without mass makes argmax return the lowest grid point (C16). *)
(***************************************************************************)
C6_OneDirection ==
  IsInstance(est) => PainfulRaises \/ PainfulLowers

(***************************************************************************)
(* C7: validate_steps() returns false exactly when the successive          *)
(* differences of temps are all >= 0 or all <= 0 (also with no or one      *)
(* completed trial), true exactly when temps has a strictly positive and   *)
(* a strictly negative step; the result is a boolean.                      *)
(***************************************************************************)
C7_ValidateSteps ==
  IsInstance(est) =>
    LET n == Len(est.temps)
        rises == \E i \in 1..(n - 1) : est.temps[i + 1] > est.temps[i]
        falls == \E i \in 1..(n - 1) : est.temps[i + 1] < est.temps[i]
    IN /\ validate_steps(est) \in BOOLEAN
       /\ validate_steps(est) = (rises /\ falls)
       /\ (~validate_steps(est)) = (NonDecreasing(est.temps) \/ NonIncreasing(est.temps))
       /\ Completed <= 1 => ~validate_steps(est)
       /\ result.kind = "validate_steps" => result.value = (rises /\ falls)

C7_Witness ==
  /\ IsInstance(est)
  /\ result.kind = "validate_steps"
  /\ result.value = TRUE
  /\ \E i, j \in 1..Completed :
       est.temps[i + 1] > est.temps[i] /\ est.temps[j + 1] < est.temps[j]

(***************************************************************************)
(* C8: a complete run (as many calls as the trial budget) in which every   *)
(* response is "painful" ends with validate_steps() = false.  The program  *)
(* does not satisfy this: the seed entry temps[0] = temp_start is stored   *)
(* unrounded while every later entry is rounded to one decimal, so with    *)
(* temp_start = 38.75 and temp_std = 0.2 the history of two "painful"      *)
(* responses is 38.75, 38.8, 38.6 and validate_steps() is true.            *)
(***************************************************************************)
C8_AllPainfulInvalid ==
  (/\ IsInstance(est)
   /\ Completed = est.trials
   /\ \A k \in 1..Completed : calls[k] = "y") => ~validate_steps(est)

\* likelihood_std in closed form after Completed calls
C9_Closed ==
  IsInstance(est) =>
    /\ est.likelihood_std > 0
    /\ \E initial \in LikelihoodStds :
         est.likelihood_std = DecayedStd(initial, est.reduction_factor, Completed)

\* a conduct_trial call multiplies likelihood_std by reduction_factor once;
\* any other step leaves it alone
C9_Step ==
  IsInstance(est) =>
    IF calls' # calls
    THEN /\ est'.likelihood_std < est.likelihood_std
         /\ est'.likelihood_std = ScaleBy(est.likelihood_std, est.reduction_factor)
    ELSE est'.likelihood_std = est.likelihood_std

(***************************************************************************)
(* C9: likelihood_std is multiplied by reduction_factor exactly once per   *)
(* conduct_trial call and changed by nothing else: after k calls it is     *)
(* likelihood_std_initial * reduction_factor^k, it strictly decreases      *)
(* with every call and stays positive.                                     *)
(***************************************************************************)
C9_Decay == [] C9_Closed /\ [][C9_Step]_vars

C9_Witness ==
  /\ IsInstance(est)
  /\ Completed >= 3
  /\ est.reduction_factor = 900
  /\ est.likelihood_std = 729 * (STD_ONE \div 1000)

(***************************************************************************)
(* C10: the likelihood of the (k+1)-th call is built before the decay and  *)
(* before the temperature update: it is centred on the entry of temps      *)
(* that was last before the call and has scale                             *)
(* likelihood_std_initial * reduction_factor^k.                            *)
(***************************************************************************)
C10_LikelihoodBeforeDecay ==
  IsInstance(est) =>
    \A k \in 1..Len(est.likelihoods) :
      \E initial \in LikelihoodStds :
        LET scale == DecayedStd(initial, est.reduction_factor, k - 1)
            loc == est.temps[k]
        IN \A i \in 1..Len(est.range_temp) :
             /\ est.likelihoods[k][i] =
                  IF calls[k] = "y"
                  THEN PROB - norm_cdf(est.range_temp[i], loc, scale)
                  ELSE norm_cdf(est.range_temp[i], loc, scale)
             /\ est.range_temp[i] = loc => est.likelihoods[k][i] * 2 = PROB

C10_Witness ==
  /\ IsInstance(est)
  /\ Completed >= 2
  /\ est.temps[2] # est.temps[1]
  /\ \E i \in 1..Len(est.range_temp) :
       /\ est.range_temp[i] = est.temps[2]
       /\ est.likelihoods[2][i] * 2 = PROB
       /\ est.likelihoods[1][i] * 2 # PROB

\* the log of the latest call holds the ceiling warning
Warned(l) == \E i \in 1..Len(l) : l[i].level = "WARNING"

\* a distribution over the grid: non-negative, sum 1 up to the truncation of
\* one millionth per grid point
IsDistribution(p) ==
  /\ \A i \in 1..Len(p) : p[i] >= 0
  /\ Sum(p) <= PROB
  /\ Sum(p) >= PROB - Len(p)

(***************************************************************************)
(* C11: in every reachable state the prior is non-negative and sums to 1,  *)
(* and so does every stored posterior.  The program does not satisfy       *)
(* this: when likelihood * prior is 0 at every grid point the division by  *)
(* the sum yields nan everywhere, and that array is stored as posterior    *)
(* and as prior (see C16).                                                 *)
(***************************************************************************)
C11_Normalized ==
  IsInstance(est) =>
    /\ IsDistribution(est.prior)
    /\ \A k \in 1..Len(est.posteriors) : IsDistribution(est.posteriors[k])

(***************************************************************************)
(* C12: current_temp is clamped to the ceiling: current_temp, every entry   *)
(* of temps and every value get_estimate() returns is <= MAX_TEMP.         *)
(***************************************************************************)
C12_AsStated ==
  IsInstance(est) =>
    /\ est.current_temp <= MAX_TEMP
    /\ \A k \in 1..Len(est.temps) : est.temps[k] <= MAX_TEMP
    /\ result.kind = "get_estimate" => result.value <= MAX_TEMP

(***************************************************************************)
(* C13: the ceiling is advisory.  A conduct_trial call logs the warning    *)
(* exactly when the temperature it chose is >= MAX_TEMP; it raises no      *)
(* error and its result is the state without any ceiling check: the        *)
(* unclamped rounded argmax grid point is stored in current_temp and       *)
(* appended to temps.                                                      *)
(***************************************************************************)
C13_AdvisoryCeiling ==
  [][calls' # calls =>
       /\ IsInstance(est')
       /\ Warned(log') <=> est'.current_temp >= MAX_TEMP
       /\ est'.current_temp = Round1(est.range_temp[ArgMax(Last(est'.posteriors))])
       /\ est'.temps = Append(est.temps, est'.current_temp)
       /\ est' = update_prior(
                   store([decay(est) EXCEPT !.current_temp = est'.current_temp],
                         Last(est'.likelihoods), Last(est'.posteriors)),
                   Last(est'.posteriors))]_vars

C13_Witness ==
  /\ IsInstance(est)
  /\ Completed >= 1
  /\ Warned(log)
  /\ est.current_temp = MAX_TEMP
  /\ Last(est.temps) = MAX_TEMP

(***************************************************************************)
(* C14: construction fails whenever trials <= 0, temp_std <= 0,            *)
(* likelihood_std <= 0 or reduction_factor is not strictly between 0 and   *)
(* 1, so that every instance has valid parameters.  The program does not   *)
(* satisfy this: __init__ checks nothing but int(temp_std), and an         *)
(* instance with trials = 0 is constructed.                                *)
(***************************************************************************)
C14_ConstructionValidated ==
  IsInstance(est) =>
    /\ est.trials > 0
    /\ est.temp_std > 0
    /\ est.likelihood_std > 0
    /\ est.reduction_factor > 0
    /\ est.reduction_factor < RF_ONE

\* the trial index passed to the call that wrote the log l
TrialIndexOf(l) == l[1].trial - 1

(***************************************************************************)
(* C15: a conduct_trial call whose trial index is negative or >= trials    *)
(* fails and leaves the estimator unchanged.  The program does not satisfy *)
(* this: the index is only used for the log record and for the             *)
(* end-of-run messages; the call updates the state as for any index.       *)
(***************************************************************************)
C15_IndexChecked ==
  [][(/\ calls' # calls
      /\ TrialIndexOf(log') \notin 0..(est.trials - 1)) => est' = est]_vars

(***************************************************************************)
(* C16: a conduct_trial call for which likelihood * prior sums to zero     *)
(* fails instead of dividing by zero, so that no recorded call has a       *)
(* product that sums to zero, no nan posterior is stored and the prior is  *)
(* never an undefined distribution.  The program does not satisfy this:    *)
(* the division is unguarded, the nan array is stored as posterior and as  *)
(* prior, and current_temp becomes the lowest grid point.                  *)
(***************************************************************************)
C16_ZeroSumRejected ==
  IsInstance(est) =>
    /\ \A i \in 1..Len(est.prior) : est.prior[i] # NaN
    /\ \A k \in 1..Len(est.posteriors) :
         /\ Sum(Array([i \in 1..Len(est.range_temp) |->
                        MulScaled(est.likelihoods[k][i], est.priors[k][i])])) # 0
         /\ \A i \in 1..Len(est.posteriors[k]) : est.posteriors[k][i] # NaN

\* the grid construction has returned a grid
GridBuilt == result.kind = "range_temp" /\ range_width(result.temp_std) # 0

(***************************************************************************)
(* C17: the grid is temp_start - width, temp_start - width + 0.1, ...,     *)
(* temp_start + width: both ends included, spacing 0.1, 20 * width + 1     *)
(* points, width 1, 2, 3 or 4 degrees for int(temp_std) 0, 1, 2 or 3.      *)
(* The program does not satisfy this: the number of points is              *)
(* int((max_temp - min_temp) / 0.1) + 1 in float64, which is one short for *)
(* temp_start = 31.3 (and others), and the 20 * width points are then      *)
(* spread over the range with a spacing above 0.1.                         *)
(***************************************************************************)
C17_GridShape ==
  GridBuilt =>
    LET g == result.value
        width == (int_of(result.temp_std) + 1) * DEG
    IN /\ Len(g) = (2 * width) \div TENTH + 1
       /\ g[1] = result.temp_start - width
       /\ g[Len(g)] = result.temp_start + width
       /\ \A i \in 1..(Len(g) - 1) : g[i + 1] - g[i] = TENTH

(***************************************************************************)
(* C18: construction with a temp_std of 4 or more raises an error before   *)
(* any grid, prior or history exists: what results is the exception and    *)
(* nothing else, and every instance has a temp_std below 4.                *)
(***************************************************************************)
C18_WideStdRaises ==
  /\ IsInstance(est) => est.temp_std < 4 * DEG
  /\ ~IsInstance(est) => est = Raised("ValueError")
  /\ \A sd \in TempStds :
       sd >= 4 * DEG =>
         \A v \in VasValues, n \in TrialBudgets, t0 \in TempStarts,
            ls \in LikelihoodStds, rf \in ReductionFactors :
           BayesianEstimatorVAS(v, n, t0, sd, ls, rf) = Raised("ValueError")

C18_Witness ==
  /\ est = Raised("ValueError")
  /\ DOMAIN est = {"raised"}
  /\ \E sd \in TempStds : sd >= 4 * DEG

(***************************************************************************)
(* C19: right after a successful construction current_temp = temp_start,   *)
(* temps = [temp_start], the diagnostic sequences are empty and the prior  *)
(* is a normalized distribution whose maximum lies at the grid point       *)
(* temp_start.  The last part needs temp_start to be a grid point, the     *)
(* middle one; the program does not satisfy this when the grid is one      *)
(* point short (C17): the grid of temp_start = 31.3, temp_std = 0.5 has    *)
(* 20 points, 31.2474 and 31.3526 next to the seed.                        *)
(***************************************************************************)
C19_SeedOnGrid ==
  GridBuilt =>
    LET g == result.value
    IN /\ Len(g) % 2 = 1
       /\ g[(Len(g) + 1) \div 2] = result.temp_start

\* the fields conduct_trial only reads are those of the construction
C20_AsConstructed ==
  IsInstance(est) =>
    /\ est.vas_value \in VasValues
    /\ est.trials \in TrialBudgets
    /\ est.reduction_factor \in ReductionFactors
    /\ est.range_temp = range_temp_of(est.temp_start, est.temp_std)
    /\ est.min_temp = est.range_temp[1]
    /\ est.max_temp = Last(est.range_temp)

\* no step changes them
C20_Step ==
  IsInstance(est) =>
    /\ est'.vas_value = est.vas_value
    /\ est'.trials = est.trials
    /\ est'.reduction_factor = est.reduction_factor
    /\ est'.range_temp = est.range_temp
    /\ est'.temp_start = est.temp_start
    /\ est'.temp_std = est.temp_std

(***************************************************************************)
(* C20: conduct_trial never changes vas_value, trials, reduction_factor    *)
(* or the grid: after any sequence of calls they are as right after        *)
(* construction, and the grid is the one __init__ built.                   *)
(***************************************************************************)
C20_Frame == [] C20_AsConstructed /\ [][C20_Step]_vars

C20_Witness ==
  /\ IsInstance(est)
  /\ Completed = MaxCalls
  /\ est.prior # init_prior(est.range_temp, est.temp_start, est.temp_std)
  /\ est.current_temp # est.temp_start
  /\ est.range_temp = range_temp_of(est.temp_start, est.temp_std)

(***************************************************************************)
(* C21: get_estimate() and validate_steps() are pure reads: a step of      *)
(* either changes no field of the estimator and adds no call, and          *)
(* get_estimate() returns the last entry of the unchanged history, so two  *)
(* calls without a conduct_trial in between (with or without a             *)
(* validate_steps() between them) return the same value.                   *)
(***************************************************************************)
C21_PureReads ==
  [][result'.kind \in {"get_estimate", "validate_steps"} =>
       /\ est' = est
       /\ calls' = calls
       /\ (result'.kind = "get_estimate" => result'.value = Last(est'.temps))
       /\ (result.kind = "get_estimate" /\ result'.kind = "validate_steps" =>
             result.value = Last(est'.temps))]_vars

C21_Witness ==
  /\ IsInstance(est)
  /\ Completed >= 1
  /\ result.kind = "get_estimate"
  /\ result.value = Last(est.temps)
  /\ result.value # est.temp_start

\* initial * reduction_factor^k as the code computes it, one product per call
RECURSIVE DecayChain(_, _, _)
DecayChain(initial, reduction_factor, k) ==
  IF k = 0 THEN initial
  ELSE ScaleBy(DecayChain(initial, reduction_factor, k - 1), reduction_factor)

\* the estimator before its last conduct_trial call, rebuilt from the histories
\* and the likelihood width it had then
BeforeLast(e, likelihood_std) ==
  [e EXCEPT !.likelihood_std = likelihood_std,
            !.prior = Last(e.priors),
            !.current_temp = e.temps[Len(e.temps) - 1],
            !.temps = SubSeq(@, 1, Len(@) - 1),
            !.priors = SubSeq(@, 1, Len(@) - 1),
            !.likelihoods = SubSeq(@, 1, Len(@) - 1),
            !.posteriors = SubSeq(@, 1, Len(@) - 1)]

(***************************************************************************)
(* C22: the transition of conduct_trial does not depend on the trial       *)
(* index: whatever index the last call was given (in range or not, final   *)
(* or not), the estimator is in the state that the same response produces  *)
(* with index 0 and with the final index trials - 1, so the final trial    *)
(* changes nothing more; and every call is accepted, also beyond the       *)
(* budget, so the history has one entry per call made.                     *)
(***************************************************************************)
C22_IndexIrrelevant ==
  (IsInstance(est) /\ Completed >= 1) =>
    /\ Len(est.temps) = Completed + 1
    /\ \E initial \in LikelihoodStds :
         /\ est.likelihood_std = DecayChain(initial, est.reduction_factor, Completed)
         /\ \A trial \in {0, est.trials - 1} :
              est = conduct_trial(
                      BeforeLast(est, DecayChain(initial, est.reduction_factor,
                                                 Completed - 1)),
                      Last(calls), trial)

\* the last call had the final index, and it was a call beyond the budget
C22_Witness ==
  /\ IsInstance(est)
  /\ log # <<>>
  /\ log[1].msg = "Calibration trial"
  /\ TrialIndexOf(log) = est.trials - 1
  /\ est.trials >= 1
  /\ Completed > est.trials
  /\ Len(est.temps) = Completed + 1

\* the temperature is one of the points of the grid
OnGrid(e, temperature) ==
  \E i \in 1..Len(e.range_temp) : e.range_temp[i] = temperature

(***************************************************************************)
(* C27: every entry of the history is a point of the grid built by         *)
(* __init__, and the current temperature lies between temp_start - width   *)
(* and temp_start + width.  The program does not satisfy this: the grid    *)
(* point is rounded to one decimal before it is stored, and for a seed     *)
(* with two decimals the rounded value is no grid point and can lie above  *)
(* the top of the grid (see C8).                                           *)
(***************************************************************************)
C27_HistoryOnGrid ==
  IsInstance(est) =>
    /\ \A k \in 1..Len(est.temps) : OnGrid(est, est.temps[k])
    /\ est.current_temp >= est.temp_start - range_width(est.temp_std)
    /\ est.current_temp <= est.temp_start + range_width(est.temp_std)

(***************************************************************************)
(* C29: for every recorded call the product likelihood * prior has         *)
(* strictly positive mass, because the presented temperature is a grid     *)
(* point where the likelihood is 1/2 and the prior is maximal and          *)
(* positive; so the normalizing division is never by zero.  The program    *)
(* does not satisfy this: with a seed that has two decimals the presented  *)
(* temperature is no grid point from the second call on, and with a small  *)
(* likelihood_std the product is 0 everywhere (see C16).                   *)
(***************************************************************************)
C29_PositiveMass ==
  IsInstance(est) =>
    \A k \in 1..Len(est.posteriors) :
      /\ \E i \in 1..Len(est.range_temp) :
           /\ est.range_temp[i] = est.temps[k]
           /\ est.likelihoods[k][i] = PROB \div 2
           /\ est.priors[k][i] > 0
           /\ i = ArgMax(est.priors[k])
      /\ Sum(Array([i \in 1..Len(est.range_temp) |->
                     MulScaled(est.likelihoods[k][i], est.priors[k][i])])) > 0

(***************************************************************************)
(* C28: conduct_trial never rejects a response: a call with any value      *)
(* other than "y" ("n", "Y", "painful", the empty string) appends to the   *)
(* history, and the estimator and the log records it produces are exactly  *)
(* those of the same call with "n".                                        *)
(***************************************************************************)
C28_OtherAsNotPainful ==
  [][(calls' # calls /\ Last(calls') # "y") =>
       /\ est' = conduct_trial(est, "n", Len(calls))
       /\ log' = conduct_trial_log(est, "n", Len(calls))
       /\ Len(est'.temps) = Len(est.temps) + 1]_vars

\* a run of responses that are neither "y" nor "n" has moved the estimate up
C28_Witness ==
  /\ IsInstance(est)
  /\ Completed >= 2
  /\ \A k \in 1..Len(calls) : calls[k] \in OtherResponses
  /\ Last(calls) = "painful"
  /\ log # <<>>
  /\ log[1].type = "under"
  /\ Last(est.temps) > est.temp_start

(***************************************************************************)
(* C26: the estimator for vas_value 50 with trials 3, temp_start 40.0,     *)
(* temp_std 3.0, likelihood_std 1.0 and reduction_factor 0.9, after the    *)
(* responses painful, not painful, painful: the second step has the        *)
(* opposite sign of the first and of the third, the estimate lies strictly *)
(* between 36.0 and 44.0, and validate_steps() returns true.               *)
(***************************************************************************)
C26_Scenario ==
  (/\ IsInstance(est)
   /\ est.vas_value = 50
   /\ est.trials = 3
   /\ calls = <<"y", "n", "y">>) =>
    /\ Len(steps(est)) = 3
    /\ steps(est)[1] * steps(est)[2] < 0
    /\ steps(est)[2] * steps(est)[3] < 0
    /\ get_estimate(est) > 36 * DEG
    /\ get_estimate(est) < 44 * DEG
    /\ validate_steps(est)
    /\ (result.kind = "get_estimate" =>
          result.value > 36 * DEG /\ result.value < 44 * DEG)
    /\ (result.kind = "validate_steps" => result.value)

\* the scenario has run and the estimate has been read: 38.9 degrees
C26_Witness ==
  /\ IsInstance(est)
  /\ est.vas_value = 50
  /\ est.temp_start = 40 * DEG
  /\ est.temp_std = 3 * DEG
  /\ calls = <<"y", "n", "y">>
  /\ est.temps = <<40 * DEG, 38 * DEG + 6 * TENTH, 39 * DEG + 4 * TENTH,
                   38 * DEG + 9 * TENTH>>
  /\ result = [kind |-> "get_estimate", value |-> 38 * DEG + 9 * TENTH]

(***************************************************************************)
(* C23: estimator instances are independent: a step that constructs one    *)
(* estimator (successfully or with a ValueError) or updates it leaves the  *)
(* other one, with its history, prior, likelihood_std and diagnostics, as  *)
(* it was, in every interleaving of the calls on the two.                  *)
(***************************************************************************)
C23_Independent ==
  [][\A i \in Estimators : result'.target # i => est'[i] = est[i]]_vars

\* both estimators are alive and updated, the second one last
C23_Witness ==
  /\ IsInstance(est[1])
  /\ IsInstance(est[2])
  /\ Len(est[1].temps) = 2
  /\ Len(est[2].temps) = 2
  /\ result = [kind |-> "conduct_trial", target |-> 2]
  /\ est[1].temps # est[2].temps
  /\ est[1].prior # est[2].prior

\* the presentations of an estimate and the updates, in the order of the log l
Trials(l) == SelectSeq(l, LAMBDA e : e.ev \in {"set_temp", "conduct_trial"})

\* the run has ended, by a return or by an exception
Ended == result.pc \in {"raised", "returned"}

(***************************************************************************)
(* C24: run_estimation_trials calls conduct_trial once per trial, with the *)
(* indices 0, 1, ..., N-1 in increasing order and none skipped or          *)
(* repeated; each call follows the presentation of the temperature that    *)
(* get_estimate() returned just before it, and each presentation is        *)
(* followed by its call before the next one; the loop is left only after   *)
(* the N-th update, and an estimate is returned only then.  The program    *)
(* does not satisfy this: when the wait for a key ends with a value that   *)
(* is neither key, the if/elif has no branch for it and the iteration ends *)
(* without a call of conduct_trial, so the trial is skipped and the loop   *)
(* is left with fewer than N updates.                                      *)
(***************************************************************************)
C24_TrialOrder ==
  LET t == Trials(log)
  IN /\ Len(est.temps) = Completed + 1
     /\ Completed <= est.trials
     /\ Len(t) = IF result.pc \in {"stimulus_wait", "ramp_down_wait", "keyboard_wait"}
                 THEN 2 * Completed + 1 ELSE 2 * Completed
     /\ (result.pc \in {"iti_wait", "stimulus_wait", "ramp_down_wait", "keyboard_wait"}
           => result.trial = Completed)
     /\ (result.pc = "answer_wait" => result.trial = Completed - 1)
     /\ \A k \in 1..Len(t) :
          IF k % 2 = 1
          THEN t[k] = [ev |-> "set_temp", temp |-> est.temps[(k + 1) \div 2]]
          ELSE t[k] = [ev |-> "conduct_trial", response |-> calls[k \div 2],
                       trial |-> k \div 2 - 1]
     /\ (Ended => Completed = est.trials)
     /\ (result.pc = "returned" => result.value = est.temps[est.trials + 1])

(***************************************************************************)
(* C25: when run_estimation_trials has ended, it has returned the final    *)
(* estimate, and it has played the warning signal exactly when all steps   *)
(* of the calibration were in the same direction, that is when             *)
(* validate_steps() is false.  The program does not satisfy this: the      *)
(* function calls estimator.check_steps(), which the estimator does not    *)
(* have, so it ends with an AttributeError, without signal or estimate.    *)
(***************************************************************************)
C25_WarnIffMonotone ==
  Ended =>
    /\ result.pc = "returned"
    /\ result.value = get_estimate(est)
    /\ ((\E j \in 1..Len(log) : log[j].ev = "warn_signal")
          <=> ~validate_steps(est))

\* the line is one of the OK codes 0..4
IsOkReply(reply) == reply.kind = "int" /\ reply.code \in 0..(Len(OkCodes) - 1)

(***************************************************************************)
(* C30: for every line the device answers, set_temp returns a pair         *)
(* (duration_ms, success); success is true and the tracked temperature     *)
(* becomes temp_target exactly when the line is an OK code; for an error   *)
(* code or any other line success is false and the tracked temperature is  *)
(* as before.  The program does not satisfy this: for a line that is       *)
(* neither an OK nor an error code the call raises instead of returning.   *)
(***************************************************************************)
C30_TrackedTemperature ==
  [][result'.kind = "set_temp" =>
       /\ "returned" \in DOMAIN result'
       /\ result'.returned[2] = IsOkReply(result'.reply)
       /\ est'.temp = IF IsOkReply(result'.reply) THEN result'.temp_target
                                                  ELSE est.temp]_vars

====
